---- MODULE Spec2Model ----
(***************************************************************************)
(* MindTrace (streamlit_app.py): a diary app.  The script is re-run from   *)
(* top to bottom on every widget event; it loads the last 30 days of       *)
(* entries from the store, handles the entry form and the delete button,   *)
(* and renders aggregations of the loaded frame.                           *)
(*                                                                         *)
(* Dates are day offsets from date.today() (0 = today, 1 = tomorrow).      *)
(* Text is a sequence of characters; " " is the only whitespace character  *)
(* used.  A cell of a data frame is a record [t, v]: t is the kind of the  *)
(* value the store returned, v its integer payload.                        *)
(***************************************************************************)
EXTENDS Integers, Sequences, FiniteSets, TLC

VARIABLES store, next_id, df, ui, calls, msgs, pc, arg, out

vars == <<store, next_id, df, ui, calls, msgs, pc, arg, out>>

(***************************************************************************)
(* Cells                                                                   *)
(***************************************************************************)
None == [t |-> "none", v |-> 0]
NaN == [t |-> "nan", v |-> 0]
NaT == [t |-> "nat", v |-> 0]
BadText == [t |-> "text", v |-> 0]
IntCell(n) == [t |-> "int", v |-> n]
FloatCell(tenths) == [t |-> "float", v |-> tenths]
NumStr(n) == [t |-> "numstr", v |-> n]
DateCell(d) == [t |-> "date", v |-> d]

\* Python's int(x): identity on an int, truncation toward zero on a float,
\* the parsed value of a decimal string; it raises on NaN and on other text.
Trunc10(x) == IF x >= 0 THEN x \div 10 ELSE -((-x) \div 10)

PyInt(x) ==
    CASE x.t = "int" -> [ok |-> TRUE, v |-> x.v]
      [] x.t = "float" -> [ok |-> TRUE, v |-> Trunc10(x.v)]
      [] x.t = "numstr" -> [ok |-> TRUE, v |-> x.v]
      [] OTHER -> [ok |-> FALSE, v |-> 0]

(***************************************************************************)
(* weather_group: the labels are, in the source's order, fumei (unknown),  *)
(* hare (clear), kumori (cloudy), kiri (fog), ame (rain), yuki (snow),     *)
(* kaminari (thunder), sonota (other).                                     *)
(***************************************************************************)
WeatherLabels ==
    {"unknown", "clear", "cloudy", "fog", "rain", "snow", "thunder", "other"}

weather_group_drops_showers(code) ==
    IF code.t = "none" THEN "unknown"
    ELSE LET r == PyInt(code) c == r.v IN
         IF ~r.ok THEN "unknown"
         ELSE IF c = 0 THEN "clear"
         ELSE IF c \in {1, 2, 3} THEN "cloudy"
         ELSE IF c \in {45, 48} THEN "fog"
         ELSE IF 51 <= c /\ c <= 67 THEN "rain"
         ELSE IF (71 <= c /\ c <= 77) \/ (85 <= c /\ c <= 86) THEN "snow"
         ELSE IF 95 <= c /\ c <= 99 THEN "thunder"
         ELSE "other"

weather_group(code) ==
    IF code.t = "none" THEN "unknown"
    ELSE LET r == PyInt(code) c == r.v IN
         IF ~r.ok THEN "unknown"
         ELSE IF c = 0 THEN "clear"
         ELSE IF c \in {1, 2, 3} THEN "cloudy"
         ELSE IF c \in {45, 48} THEN "fog"
         ELSE IF (51 <= c /\ c <= 67) \/ (80 <= c /\ c <= 82) THEN "rain"
         ELSE IF (71 <= c /\ c <= 77) \/ (85 <= c /\ c <= 86) THEN "snow"
         ELSE IF 95 <= c /\ c <= 99 THEN "thunder"
         ELSE "other"

(***************************************************************************)
(* The app's state before the first run (no specification of a pure        *)
(* function changes it).                                                   *)
(***************************************************************************)
NoForm ==
    [entry_date |-> 0, event |-> <<>>, emotion |-> "tired", intensity |-> 0,
     interpretation |-> <<>>, desire |-> <<>>, next_action |-> <<>>]

\* The widgets as the last run read them: whether the form was submitted and
\* with what, whether the delete button was pressed, the confirm checkbox and
\* the id selected in the detail view (0 while the view is not shown).
NoUi ==
    [submitted |-> FALSE, form |-> NoForm, pressed |-> FALSE, confirm |-> FALSE,
     selected_id |-> 0]

AppIdle ==
    /\ store = {}
    /\ next_id = 1
    /\ df = <<>>
    /\ ui = NoUi
    /\ calls = <<>>
    /\ msgs = {}

AppUnchanged == UNCHANGED <<store, next_id, df, ui, calls, msgs>>

(***************************************************************************)
(* SpecWG: weather_group applied to one code.                              *)
(***************************************************************************)
MaxCode == 200

Codes ==
    {None, NaN, BadText}
        \cup {IntCell(n) : n \in -2 .. MaxCode}
        \cup {FloatCell(t) : t \in {-5, 0, 5, 10, 615, 669, 800, 999, 2000}}
        \cup {NumStr(n) : n \in {0, 61, 200}}

InitWG ==
    /\ AppIdle
    /\ pc = "call"
    /\ arg \in Codes
    /\ out = "unknown"

CallWeatherGroup ==
    /\ pc = "call"
    /\ out' = weather_group(arg)
    /\ pc' = "ret"
    /\ UNCHANGED arg
    /\ AppUnchanged

SpecWG == InitWG /\ [][CallWeatherGroup]_vars

\* The table of section 4.5, stated on the integer value of a code.
GroupOf(c) ==
    CASE c = 0 -> "clear"
      [] c \in 1 .. 3 -> "cloudy"
      [] c = 45 \/ c = 48 -> "fog"
      [] c \in 51 .. 67 \/ c \in 80 .. 82 -> "rain"
      [] c \in 71 .. 77 \/ c \in 85 .. 86 -> "snow"
      [] c \in 95 .. 99 -> "thunder"
      [] OTHER -> "other"

\* C4: weather_group is total: every integer code and null maps to exactly one
\* of the eight labels, the one the table gives (null and non-numeric ->
\* unknown, 0 -> clear, 1..3 -> cloudy, 45/48 -> fog, 51..67 and 80..82 -> rain,
\* 71..77 and 85..86 -> snow, 95..99 -> thunder, anything else -> other); in
\* particular 0 is clear, 61 is rain, 200 is other and null is unknown.
C4_WeatherGroupTable ==
    pc = "ret" =>
        /\ out \in WeatherLabels
        /\ arg.t = "int" => out = GroupOf(arg.v)
        /\ arg.t \in {"none", "nan", "text"} => out = "unknown"
        /\ arg = IntCell(0) => out = "clear"
        /\ arg = IntCell(61) => out = "rain"
        /\ arg = IntCell(200) => out = "other"
        /\ arg = None => out = "unknown"

C4_Witness == pc = "ret" /\ arg = IntCell(81) /\ out = "rain"

(***************************************************************************)
(* Text cells and str.strip().                                             *)
(***************************************************************************)
Txt(s) == [null |-> FALSE, s |-> s]
NullText == [null |-> TRUE, s |-> <<>>]

RECURSIVE LStrip(_)
LStrip(s) == IF s # <<>> /\ Head(s) = " " THEN LStrip(Tail(s)) ELSE s

RECURSIVE RStrip(_)
RStrip(s) == IF s # <<>> /\ s[Len(s)] = " " THEN RStrip(SubSeq(s, 1, Len(s) - 1)) ELSE s

Strip(s) == RStrip(LStrip(s))

\* Series.fillna("") on a text column.
FillNa(c) == IF c.null THEN <<>> ELSE c.s

Min(a, b) == IF a <= b THEN a ELSE b
Max(a, b) == IF a >= b THEN a ELSE b

\* DataFrame.head(n): the first n rows; all but the last -n rows when n < 0.
DfHead(d, n) ==
    IF n >= 0 THEN SubSeq(d, 1, Min(n, Len(d))) ELSE SubSeq(d, 1, Max(Len(d) + n, 0))

(***************************************************************************)
(* next_action_list                                                        *)
(***************************************************************************)
next_action_list_no_strip(frame, max_items) ==
    IF frame = <<>> THEN <<>>
    ELSE LET d == [i \in 1 .. Len(frame) |->
                     [frame[i] EXCEPT !.next_action = Txt(FillNa(frame[i].next_action))]]
             kept == SelectSeq(d, LAMBDA r : r.next_action.s # <<>>)
         IN  IF kept = <<>> THEN <<>> ELSE DfHead(kept, max_items)

next_action_list(frame, max_items) ==
    IF frame = <<>> THEN <<>>
    ELSE LET d == [i \in 1 .. Len(frame) |->
                     [frame[i] EXCEPT !.next_action = Txt(Strip(FillNa(frame[i].next_action)))]]
             kept == SelectSeq(d, LAMBDA r : r.next_action.s # <<>>)
         IN  IF kept = <<>> THEN <<>> ELSE DfHead(kept, max_items)

(***************************************************************************)
(* SpecNA: next_action_list applied to one frame.  A row carries the       *)
(* columns the function reads or that identify the row.                    *)
(***************************************************************************)
MaxLen == 4
MaxItems == 2
DefaultMaxItems == 8

NextActionCells ==
    {NullText, Txt(<<>>), Txt(<<" ">>), Txt(<<"a">>), Txt(<<" ", "a", " ">>)}

\* Frames in the store's order (id descending).
NAFrames ==
    UNION {{[i \in 1 .. n |-> [id |-> n + 1 - i, next_action |-> f[i]]] :
                f \in [1 .. n -> NextActionCells]} : n \in 0 .. MaxLen}

InitNA ==
    /\ AppIdle
    /\ pc = "call"
    /\ arg \in [frame : NAFrames, max_items : (0 .. MaxItems) \cup {DefaultMaxItems}]
    /\ out = <<>>

CallNextActionList ==
    /\ pc = "call"
    /\ out' = next_action_list(arg.frame, arg.max_items)
    /\ pc' = "ret"
    /\ UNCHANGED arg
    /\ AppUnchanged

SpecNA == InitNA /\ [][CallNextActionList]_vars

\* An entry qualifies when its nextAction is present and has a character that
\* is not whitespace.
Qualifies(r) ==
    /\ ~r.next_action.null
    /\ \E k \in 1 .. Len(r.next_action.s) : r.next_action.s[k] # " "

QualifyingUpTo(frame, i) == {j \in 1 .. i : Qualifies(frame[j])}

\* C1: next_action_list returns exactly the first min(maxItems, q) of the q
\* entries whose trimmed nextAction is non-empty, in the input's order: never
\* more than maxItems items, never an entry whose trimmed nextAction is empty
\* or absent, all qualifying entries when fewer than maxItems qualify, and
\* nothing when none qualify.
C1_NextActionPrefix ==
    pc = "ret" =>
        LET frame == arg.frame
            q == Cardinality(QualifyingUpTo(frame, Len(frame)))
        IN  /\ Len(out) = Min(arg.max_items, q)
            /\ Len(out) <= arg.max_items
            /\ \A k \in 1 .. Len(out) :
                 /\ out[k].next_action.s # <<>>
                 /\ \E i \in 1 .. Len(frame) :
                      /\ Qualifies(frame[i])
                      /\ Cardinality(QualifyingUpTo(frame, i)) = k
                      /\ out[k].id = frame[i].id
            /\ q <= arg.max_items => Len(out) = q
            /\ q = 0 => out = <<>>

\* Three entries qualify, one blank entry sits between them, and the list is
\* cut at two.
C1_Witness ==
    /\ pc = "ret"
    /\ arg.max_items = 2
    /\ Len(arg.frame) = 4
    /\ ~Qualifies(arg.frame[2])
    /\ Cardinality(QualifyingUpTo(arg.frame, 4)) = 3
    /\ Len(out) = 2
    /\ out[2].id = arg.frame[3].id

(***************************************************************************)
(* Coercions of pandas.                                                    *)
(***************************************************************************)
\* pd.to_datetime(x, errors="coerce"): a date the store wrote parses, a null
\* or unparsable value becomes NaT.
ToDatetimeCoerce(x) == IF x.t = "date" THEN x ELSE NaT

\* pd.to_numeric(x, errors="coerce"): an int stays, a decimal string parses,
\* a null or any other text becomes NaN.
ToNumericCoerce(x) ==
    CASE x.t = "int" -> x
      [] x.t = "float" -> x
      [] x.t = "numstr" -> IntCell(x.v)
      [] OTHER -> NaN

RECURSIVE SumOf(_, _)
SumOf(f, S) == IF S = {} THEN 0 ELSE LET i == CHOOSE j \in S : TRUE IN f[i] + SumOf(f, S \ {i})

(***************************************************************************)
(* weekly_review.  A result is a record; kind "none" is the None the       *)
(* function returns for an empty frame, kind "raise" an exception.  The    *)
(* mean is the pair (sum, count) of the values averaged.  The num_records  *)
(* key, present only in the empty-window summary and read nowhere, is left *)
(* out.                                                                    *)
(***************************************************************************)
NoEmotion == "None"
NoAvg == [t |-> "none", num |-> 0, den |-> 1]
NaNAvg == [t |-> "nan", num |-> 0, den |-> 1]
Avg(sum, n) == [t |-> "num", num |-> sum, den |-> n]

ReturnsNone ==
    [kind |-> "none", since |-> 0, days |-> 0, num_days |-> 0,
     top_emotion |-> NoEmotion, avg_intensity |-> NoAvg]
Raises == [ReturnsNone EXCEPT !.kind = "raise"]

\* Series.value_counts().idxmax(): a label of the highest count; which one of
\* several equally frequent labels is not fixed by pandas.
Modes(w) ==
    LET count(e) == Cardinality({i \in 1 .. Len(w) : w[i].emotion = e})
        labels == {w[i].emotion : i \in 1 .. Len(w)}
    IN  {e \in labels : \A f \in labels : count(f) <= count(e)}

\* float(Series.dropna().mean()): NaN for an empty series.
MeanIntensity(w) ==
    LET num == [i \in 1 .. Len(w) |-> ToNumericCoerce(w[i].intensity)]
        ok == {i \in 1 .. Len(w) : num[i].t = "int"}
    IN  IF ok = {} THEN NaNAvg ELSE Avg(SumOf([i \in ok |-> num[i].v], ok), Cardinality(ok))

\* The set of values weekly_review can return for a frame.
weekly_review_no_window_guard(frame, days) ==
    IF frame = <<>> THEN {ReturnsNone}
    ELSE IF \E i \in 1 .. Len(frame) : frame[i].entry_date.t # "date" THEN {Raises}
    ELSE LET since == 0 - (days - 1)
             w == SelectSeq(frame, LAMBDA r : r.entry_date.v >= since)
         IN  IF Modes(w) = {} THEN {Raises}
             ELSE {[kind |-> "summary", since |-> since, days |-> days,
                    num_days |-> Cardinality({w[i].entry_date.v : i \in 1 .. Len(w)}),
                    top_emotion |-> e, avg_intensity |-> MeanIntensity(w)] : e \in Modes(w)}

weekly_review(frame, days) ==
    IF frame = <<>> THEN {ReturnsNone}
    ELSE IF \E i \in 1 .. Len(frame) : frame[i].entry_date.t # "date" THEN {Raises}
    ELSE LET since == 0 - (days - 1)
             w == SelectSeq(frame, LAMBDA r : r.entry_date.v >= since)
         IN  IF w = <<>>
             THEN {[kind |-> "summary", since |-> since, days |-> days, num_days |-> 0,
                    top_emotion |-> NoEmotion, avg_intensity |-> NoAvg]}
             ELSE {[kind |-> "summary", since |-> since, days |-> days,
                    num_days |-> Cardinality({w[i].entry_date.v : i \in 1 .. Len(w)}),
                    top_emotion |-> e, avg_intensity |-> MeanIntensity(w)] : e \in Modes(w)}

(***************************************************************************)
(* SpecWR: weekly_review applied to one frame of the store: every          *)
(* entry_date is a date (load_entries filters on it), in descending order. *)
(***************************************************************************)
ReviewDays == 7
MaxFuture == 1

WRDates == (0 - ReviewDays) .. MaxFuture
WRIntensities == {IntCell(4), IntCell(10), BadText}

RECURSIVE SeqDesc(_)
SeqDesc(S) ==
    IF S = {} THEN <<>>
    ELSE LET m == CHOOSE x \in S : \A y \in S : y <= x IN <<m>> \o SeqDesc(S \ {m})

\* One entry per date of S, two on the newest date when dup; the newest entry
\* has intensity i1, the others i2.
WRFrame(S, dup, i1, i2) ==
    LET ds == IF dup /\ S # {} THEN <<Head(SeqDesc(S))>> \o SeqDesc(S) ELSE SeqDesc(S)
        n == Len(ds)
    IN  [k \in 1 .. n |->
           [id |-> n + 1 - k, entry_date |-> DateCell(ds[k]),
            emotion |-> IF k % 2 = 1 THEN "tired" ELSE "happy",
            intensity |-> IF k = 1 THEN i1 ELSE i2]]

WRFrames ==
    {WRFrame(S, dup, i1, i2) :
        S \in SUBSET WRDates, dup \in BOOLEAN, i1 \in WRIntensities, i2 \in WRIntensities}

InitWR ==
    /\ AppIdle
    /\ pc = "call"
    /\ arg \in [frame : WRFrames, days : {ReviewDays}]
    /\ out = ReturnsNone

CallWeeklyReview ==
    /\ pc = "call"
    /\ out' \in weekly_review(arg.frame, arg.days)
    /\ pc' = "ret"
    /\ UNCHANGED arg
    /\ AppUnchanged

SpecWR == InitWR /\ [][CallWeeklyReview]_vars

\* The entries of the frame that lie in the window of the last `days` days.
InWindow(frame, days) == {i \in 1 .. Len(frame) : frame[i].entry_date.v >= 0 - (days - 1)}

\* C2: for a non-empty collection weekly_review with days=7 returns
\* numDistinctDays <= 7 and numDistinctDays <= the number of entries in the
\* window, whatever dates the entries carry.
C2_DistinctDaysBounded ==
    (pc = "ret" /\ arg.frame # <<>> /\ arg.days = 7) =>
        /\ out.kind = "summary"
        /\ out.num_days <= 7
        /\ out.num_days <= Cardinality(InWindow(arg.frame, arg.days))

\* C3 as stated: on a window with no entry (an empty collection, or no entry
\* dated since today-(days-1)) weekly_review returns a summary with
\* numDistinctDays = 0, topEmotion = null and avgIntensity = null.
C3_EmptyWindowSummary ==
    (pc = "ret" /\ InWindow(arg.frame, arg.days) = {}) =>
        /\ out.kind = "summary"
        /\ out.num_days = 0
        /\ out.top_emotion = NoEmotion
        /\ out.avg_intensity = NoAvg

\* C3 amended: weekly_review never throws on a window with no entry; for an
\* empty collection it returns no summary at all (None), and for a non-empty
\* collection with no entry dated since today-(days-1) it returns a summary
\* with numDistinctDays = 0, topEmotion = null and avgIntensity = null.
C3_EmptyWindowNoneOrSummary ==
    (pc = "ret" /\ InWindow(arg.frame, arg.days) = {}) =>
        /\ out.kind # "raise"
        /\ arg.frame = <<>> => out = ReturnsNone
        /\ arg.frame # <<>> =>
             /\ out.kind = "summary"
             /\ out.since = 0 - (arg.days - 1)
             /\ out.num_days = 0
             /\ out.top_emotion = NoEmotion
             /\ out.avg_intensity = NoAvg

C3_Witness ==
    /\ pc = "ret"
    /\ Len(arg.frame) = 1
    /\ arg.frame[1].entry_date.v = 0 - ReviewDays
    /\ out.kind = "summary"
    /\ out.num_days = 0

\* The window entries whose intensity is a number.
Parsable(frame, days) == {i \in InWindow(frame, days) : frame[i].intensity.t = "int"}

\* C9: for a non-empty window avgIntensity is the mean of intensity over the
\* window entries whose intensity parses (avgIntensity times their number is
\* their sum), and it is always null or a number in [0, 10], also when no
\* window entry has a parsable intensity.
C9_MeanOfParsable ==
    (pc = "ret" /\ InWindow(arg.frame, arg.days) # {}) =>
        LET ok == Parsable(arg.frame, arg.days)
            a == out.avg_intensity
        IN  /\ out.kind = "summary"
            /\ a.t \in {"none", "num"}
            /\ a.t = "num" =>
                 /\ 0 <= a.num /\ a.num <= 10 * a.den
                 /\ a.num * Cardinality(ok)
                      = a.den * SumOf([i \in ok |-> arg.frame[i].intensity.v], ok)
            /\ ok # {} => a.t = "num"

(***************************************************************************)
(* plot_intensity.  The result is what the function renders: a placeholder *)
(* message (st.info) or the series it plots.  DataFrame.sort_values is     *)
(* called with its default kind, "quicksort", which pandas documents as    *)
(* not stable: every arrangement in ascending entry_date is a possible     *)
(* outcome.                                                                *)
(***************************************************************************)
Perms(n) == {p \in [1 .. n -> 1 .. n] : \A i, j \in 1 .. n : i # j => p[i] # p[j]}

SortValues(d) ==
    {[k \in 1 .. Len(d) |-> d[p[k]]] : p \in
        {q \in Perms(Len(d)) :
            \A k \in 1 .. Len(d) - 1 : d[q[k]].entry_date.v <= d[q[k + 1]].entry_date.v}}

Coerced(frame) ==
    [i \in 1 .. Len(frame) |->
        [frame[i] EXCEPT !.entry_date = ToDatetimeCoerce(frame[i].entry_date),
                         !.intensity = ToNumericCoerce(frame[i].intensity)]]

\* DataFrame.dropna(subset=["entry_date", "intensity"])
DropNa(d) == SelectSeq(d, LAMBDA r : r.entry_date # NaT /\ r.intensity # NaN)

Rendered(placeholder, series) == [placeholder |-> placeholder, series |-> series]

plot_intensity_keeps_nan_intensity(frame) ==
    IF frame = <<>> THEN {Rendered("no_data", <<>>)}
    ELSE LET d == SelectSeq(Coerced(frame), LAMBDA r : r.entry_date # NaT)
         IN  IF d = <<>> THEN {Rendered("nothing_to_plot", <<>>)}
             ELSE {Rendered("none", sorted) : sorted \in SortValues(d)}

plot_intensity(frame) ==
    IF frame = <<>> THEN {Rendered("no_data", <<>>)}
    ELSE LET d == DropNa(Coerced(frame))
         IN  IF d = <<>> THEN {Rendered("nothing_to_plot", <<>>)}
             ELSE {Rendered("none", sorted) : sorted \in SortValues(d)}

(***************************************************************************)
(* SpecPI: plot_intensity applied to one frame, in any order, whose dates  *)
(* and intensities may be unparsable.  id is the position in the input.    *)
(***************************************************************************)
MaxRows == 3

PIDates == {DateCell(1), DateCell(2), BadText}
PIIntensities == {IntCell(3), IntCell(7), None}

PIFrames ==
    UNION {{[i \in 1 .. n |-> [id |-> i, entry_date |-> f[i][1], intensity |-> f[i][2]]] :
                f \in [1 .. n -> PIDates \X PIIntensities]} : n \in 0 .. MaxRows}

InitPI ==
    /\ AppIdle
    /\ pc = "call"
    /\ arg \in PIFrames
    /\ out = Rendered("none", <<>>)

CallPlotIntensity ==
    /\ pc = "call"
    /\ out' \in plot_intensity(arg)
    /\ pc' = "ret"
    /\ UNCHANGED arg
    /\ AppUnchanged

SpecPI == InitPI /\ [][CallPlotIntensity]_vars

\* The input positions whose date and intensity both parse.
Valid(frame) ==
    {i \in 1 .. Len(frame) : frame[i].entry_date.t = "date" /\ frame[i].intensity.t = "int"}

DropsAndSorts ==
    LET s == out.series IN
    /\ {s[k].id : k \in 1 .. Len(s)} = Valid(arg)
    /\ Len(s) = Cardinality(Valid(arg))
    /\ \A k \in 1 .. Len(s) :
         /\ s[k].entry_date = arg[s[k].id].entry_date
         /\ s[k].intensity = arg[s[k].id].intensity
    /\ \A k \in 1 .. Len(s) - 1 : s[k].entry_date.v <= s[k + 1].entry_date.v
    /\ (Valid(arg) = {}) = (out.placeholder # "none")

TiesInInputOrder ==
    LET s == out.series IN
    \A k, l \in 1 .. Len(s) :
        (k < l /\ s[k].entry_date = s[l].entry_date) => s[k].id < s[l].id

MaxInserts == 2
LoadDays == 30
IntensityMax == 10

StoreResults == {"ok", "error"}

NullWeather == [weather_code |-> None, temp_max |-> None, temp_min |-> None]
RainyDay == [weather_code |-> IntCell(61), temp_max |-> FloatCell(253), temp_min |-> FloatCell(180)]

\* fetch_kumamoto_weather_daily: the request raises (network, HTTP status), or
\* returns the day's values, each None when the archive has none.
WeatherResults ==
    {[raised |-> TRUE, w |-> NullWeather],
     [raised |-> FALSE, w |-> RainyDay],
     [raised |-> FALSE, w |-> NullWeather]}

\* Two of the ten labels of EMOTIONS: ureshii (happy) and tsukare (tired), the
\* form's default selection.
EMOTIONS == {"happy", "tired"}
DefaultEmotion == "tired"

\* What the entry form can submit: the slider gives an int in 0..10, the text
\* widgets a string, the date input any day.
Forms ==
    [entry_date : {0 - LoadDays - 1, 0},
     event : {<<>>, <<" ">>, <<" ", "a">>},
     emotion : {DefaultEmotion},
     intensity : {0, IntensityMax},
     interpretation : {<<>>},
     desire : {<<"b", " ">>},
     next_action : {<<" ", "a">>}]

Payload(form, w) ==
    [entry_date |-> DateCell(form.entry_date),
     event |-> Txt(Strip(form.event)),
     emotion |-> form.emotion,
     intensity |-> IntCell(form.intensity),
     interpretation |-> Txt(Strip(form.interpretation)),
     desire |-> Txt(Strip(form.desire)),
     next_action |-> Txt(Strip(form.next_action)),
     weather_code |-> w.weather_code,
     temp_max |-> w.temp_max,
     temp_min |-> w.temp_min]

WeatherCall(form, wx) == [op |-> "weather", date |-> form.entry_date, raised |-> wx.raised]
InsertCall(payload, res) == [op |-> "insert", payload |-> payload, res |-> res]
DeleteCall(id, res) == [op |-> "delete", id |-> id, res |-> res]
QueryCall(days, res) == [op |-> "query", days |-> days, res |-> res]

\* insert_entry: the calls it makes and the response it returns.
insert_entry_weather_uncaught(form, wx, res) ==
    IF wx.raised
    THEN [calls |-> <<WeatherCall(form, wx)>>, rows |-> {}, res |-> "error"]
    ELSE LET payload == Payload(form, wx.w)
         IN  [calls |-> <<WeatherCall(form, wx), InsertCall(payload, res)>>,
              rows |-> IF res = "ok" THEN {payload} ELSE {},
              res |-> res]

insert_entry(form, wx, res) ==
    LET w == IF wx.raised THEN NullWeather ELSE wx.w
        payload == Payload(form, w)
    IN  [calls |-> <<WeatherCall(form, wx), InsertCall(payload, res)>>,
         rows |-> IF res = "ok" THEN {payload} ELSE {},
         res |-> res]

WithId(payload, id) ==
    [id |-> id, entry_date |-> payload.entry_date, event |-> payload.event,
     emotion |-> payload.emotion, intensity |-> payload.intensity,
     interpretation |-> payload.interpretation, desire |-> payload.desire,
     next_action |-> payload.next_action, weather_code |-> payload.weather_code,
     temp_max |-> payload.temp_max, temp_min |-> payload.temp_min]

\* delete_entry: the store without the rows whose id is entry_id.
delete_entry(S, entry_id) == {e \in S : e.id # entry_id}

\* order("entry_date", desc).order("id", desc)
RECURSIVE Ordered(_)
Ordered(S) ==
    IF S = {} THEN <<>>
    ELSE LET top == CHOOSE e \in S : \A f \in S :
                        \/ f.entry_date.v < e.entry_date.v
                        \/ (f.entry_date.v = e.entry_date.v /\ f.id <= e.id)
         IN  <<top>> \o Ordered(S \ {top})

\* load_entries: the rows dated since today - days, newest first; a response
\* without data gives the empty frame (res.data or []).
load_entries(S, days, res) ==
    IF res = "error" THEN <<>>
    ELSE Ordered({e \in S : e.entry_date.v >= 0 - days})

Ids(d) == {d[i].id : i \in 1 .. Len(d)}

\* st.selectbox(ids, index=0): the chosen id while it is an option, else the
\* first option.
SelectBox(d, chosen) == IF chosen \in Ids(d) THEN chosen ELSE d[1].id

\* st.button(..., disabled=not confirm): whether the button can be pressed.
ButtonEnabled_always(confirm) == TRUE

ButtonEnabled(confirm) == confirm

\* The submit handler's validation: `if not event.strip()`.
EventMissing_only_empty(event) == event = <<>>

EventMissing(event) == Strip(event) = <<>>

\* The right column: weekly_review(df, days=7) and next_action_list(df, 8).
Dashboards(d) ==
    {[summary |-> s, na |-> next_action_list(d, DefaultMaxItems)] :
        s \in weekly_review(d, ReviewDays)}

Init ==
    /\ AppIdle
    /\ pc = "idle"
    /\ arg = <<>>
    /\ out \in Dashboards(<<>>)

\* The widgets of the detail view as a run that reaches them reads them; the
\* view is not shown for an empty frame.
Widgets(d, chosen, confirm) ==
    IF d = <<>> THEN NoUi
    ELSE [NoUi EXCEPT !.confirm = confirm, !.selected_id = SelectBox(d, chosen)]

\* The second query, for the charts of the detail view.
ChartCalls(d, q2) == IF d = <<>> THEN <<>> ELSE <<QueryCall(LoadDays, q2)>>

Listing(d) == IF d = <<>> THEN {"no_records"} ELSE {}

\* The end of a run that st.rerun() does not cut short: the dashboard, the
\* widgets of the detail view and, when the view is shown, the chart query.
Finish(d, before, shown, submitted, form, pressed, chosen, confirm) ==
    /\ out' \in Dashboards(d)
    /\ msgs' = shown \cup Listing(d)
    /\ ui' = [Widgets(d, chosen, confirm) EXCEPT
                 !.submitted = submitted, !.form = form, !.pressed = pressed]
    /\ \E q2 \in (IF d = <<>> THEN {"ok"} ELSE StoreResults) :
         calls' = before \o ChartCalls(d, q2)

\* A run triggered by the form's submit button (lines 293-320, then the rest
\* of the script unless st.rerun() ends the run).
RunSubmit ==
    /\ pc = "idle"
    /\ \E form \in Forms, q \in StoreResults :
         LET d == load_entries(store, LoadDays, q)
             loaded == <<QueryCall(LoadDays, q)>>
         IN  /\ df' = d
             /\ IF EventMissing(form.event)
                THEN /\ Finish(d, loaded, {"event_required"}, TRUE, form, FALSE,
                               ui.selected_id, ui.confirm)
                     /\ UNCHANGED <<store, next_id, pc>>
                ELSE /\ next_id <= MaxInserts
                     /\ \E wx \in WeatherResults, ins \in StoreResults :
                          LET eff == insert_entry(form, wx, ins)
                          IN  IF eff.res = "ok"
                              THEN /\ store' = store \cup {WithId(r, next_id) : r \in eff.rows}
                                   /\ next_id' = next_id + 1
                                   /\ msgs' = {"saved"}
                                   /\ calls' = loaded \o eff.calls
                                   /\ ui' = [ui EXCEPT !.submitted = TRUE, !.form = form,
                                                       !.pressed = FALSE]
                                   /\ pc' = "rerun"
                                   /\ UNCHANGED out
                              ELSE /\ Finish(d, loaded \o eff.calls, {"save_failed"}, TRUE,
                                             form, FALSE, ui.selected_id, ui.confirm)
                                   /\ UNCHANGED <<store, next_id, pc>>
    /\ UNCHANGED arg

\* A run triggered by the delete button of the detail view the last run
\* showed (lines 293, 366-385).
RunDelete ==
    /\ pc = "idle"
    /\ df # <<>>
    /\ ButtonEnabled(ui.confirm)
    /\ \E q \in StoreResults :
         LET d == load_entries(store, LoadDays, q)
             loaded == <<QueryCall(LoadDays, q)>>
             w == Widgets(d, ui.selected_id, ui.confirm)
         IN  /\ df' = d
             /\ IF d = <<>>
                THEN /\ Finish(d, loaded, {}, FALSE, NoForm, FALSE, ui.selected_id, ui.confirm)
                     /\ UNCHANGED <<store, pc>>
                ELSE \E del \in StoreResults :
                       LET deleting == loaded \o <<DeleteCall(w.selected_id, del)>>
                       IN  IF del = "ok"
                           THEN /\ store' = delete_entry(store, w.selected_id)
                                /\ msgs' = {"deleted"}
                                /\ calls' = deleting
                                /\ ui' = [w EXCEPT !.pressed = TRUE]
                                /\ out' \in Dashboards(d)
                                /\ pc' = "rerun"
                           ELSE /\ Finish(d, deleting, {"delete_failed"}, FALSE, NoForm, TRUE,
                                          ui.selected_id, ui.confirm)
                                /\ UNCHANGED <<store, pc>>
    /\ UNCHANGED <<next_id, arg>>

\* A run triggered by the selectbox or the confirm checkbox of the detail
\* view the last run showed.
RunWidget ==
    /\ pc = "idle"
    /\ df # <<>>
    /\ \E chosen \in Ids(df), confirm \in BOOLEAN, q \in StoreResults :
         LET d == load_entries(store, LoadDays, q)
         IN  /\ df' = d
             /\ Finish(d, <<QueryCall(LoadDays, q)>>, {}, FALSE, NoForm, FALSE, chosen, confirm)
    /\ UNCHANGED <<store, next_id, pc, arg>>

\* A run with no widget event: the one st.rerun() starts, or a manual rerun.
RunRerun ==
    /\ pc \in {"idle", "rerun"}
    /\ \E q \in StoreResults :
         LET d == load_entries(store, LoadDays, q)
         IN  /\ df' = d
             /\ Finish(d, <<QueryCall(LoadDays, q)>>, {}, FALSE, NoForm, FALSE,
                       ui.selected_id, ui.confirm)
    /\ pc' = "idle"
    /\ UNCHANGED <<store, next_id, arg>>

Next == RunSubmit \/ RunDelete \/ RunWidget \/ RunRerun

Spec == Init /\ [][Next]_vars

(***************************************************************************)
(* Claims about the app.                                                   *)
(***************************************************************************)
Blank(s) == \A k \in 1 .. Len(s) : s[k] = " "

\* p is s without its leading and trailing whitespace.
IsTrimOf(p, s) ==
    /\ p # <<>> => (p[1] # " " /\ p[Len(p)] # " ")
    /\ \E a \in 0 .. Len(s) :
         /\ a + Len(p) <= Len(s)
         /\ SubSeq(s, a + 1, a + Len(p)) = p
         /\ \A k \in 1 .. Len(s) : (k <= a \/ k > a + Len(p)) => s[k] = " "

CallsOf(cs, op) == {k \in 1 .. Len(cs) : cs[k].op = op}

\* C6: after any sequence of submissions and deletions every stored entry has
\* an event that is non-empty after trimming and an integer intensity in
\* [0, 10]; a submission whose event is empty or whitespace-only is rejected
\* with a validation message, makes no weather lookup and no insert, and
\* leaves the store unchanged.
C6_ValidEntriesOnly ==
    [][/\ \A e \in store' :
            /\ ~e.event.null
            /\ ~Blank(e.event.s)
            /\ e.intensity.t = "int"
            /\ e.intensity.v \in 0 .. 10
       /\ (ui'.submitted /\ Blank(ui'.form.event)) =>
            /\ "event_required" \in msgs'
            /\ CallsOf(calls', "weather") = {}
            /\ CallsOf(calls', "insert") = {}
            /\ store' = store]_vars

\* A whitespace-only event was just rejected while the store holds an entry.
C6_Witness ==
    /\ ui.submitted
    /\ ui.form.event = <<" ">>
    /\ "event_required" \in msgs
    /\ store # {}

\* C7: when the weather lookup raises during insert_entry the entry is still
\* sent to the store, with weatherCode, tempMax and tempMin null and every
\* user-supplied field as submitted (text trimmed); if the store accepts it
\* the entry is stored and the run reports success, and an error is shown
\* only when the store itself fails.
C7_WeatherFailureStillSaves ==
    \A k \in CallsOf(calls, "weather") :
        calls[k].raised =>
            /\ k < Len(calls)
            /\ calls[k + 1].op = "insert"
            /\ LET p == calls[k + 1].payload
                   f == ui.form
               IN  /\ p.weather_code = None /\ p.temp_max = None /\ p.temp_min = None
                   /\ p.entry_date = DateCell(f.entry_date)
                   /\ p.emotion = f.emotion
                   /\ p.intensity = IntCell(f.intensity)
                   /\ IsTrimOf(p.event.s, f.event)
                   /\ IsTrimOf(p.interpretation.s, f.interpretation)
                   /\ IsTrimOf(p.desire.s, f.desire)
                   /\ IsTrimOf(p.next_action.s, f.next_action)
                   /\ calls[k + 1].res = "ok" =>
                        /\ WithId(p, next_id - 1) \in store
                        /\ msgs = {"saved"}
                   /\ ("save_failed" \in msgs) = (calls[k + 1].res = "error")

\* The lookup raised and the entry is in the store with null weather.
C7_Witness ==
    /\ \E k \in CallsOf(calls, "weather") : calls[k].raised
    /\ \E e \in store : e.id = next_id - 1 /\ e.weather_code = None
    /\ msgs = {"saved"}

\* The reports of a store failure the app has (st.error, lines 317 and 382).
ErrorReports == {"save_failed", "delete_failed"}

\* C8: a store failure of insert, delete or query is surfaced as a reported
\* error, leaves the stored entries unchanged and is not retried: after a
\* failed insert or delete the run shows the error, makes no second call of
\* that operation and triggers no rerun.
C8_StoreFailureReported ==
    [][\A k \in 1 .. Len(calls') :
          (calls'[k].op # "weather" /\ calls'[k].res = "error") =>
              /\ msgs' \cap ErrorReports # {}
              /\ calls'[k].op \in {"insert", "delete"} =>
                   /\ store' = store
                   /\ Cardinality(CallsOf(calls', calls'[k].op)) = 1
                   /\ pc' # "rerun"]_vars

\* C10: delete_entry is called only in a run where the confirm checkbox is
\* checked and the delete button pressed, only with the id selected from the
\* loaded entry list, and at most once per run; a successful delete removes
\* exactly the entry with that id, leaves every other entry unchanged, and is
\* followed by a rerun, which reloads the list.
C10_DeleteConfirmedSelected ==
    [][/\ \A k \in CallsOf(calls', "delete") :
            /\ ui'.pressed
            /\ ui'.confirm
            /\ calls'[k].id = ui'.selected_id
            /\ calls'[k].id \in Ids(df')
            /\ CallsOf(calls', "delete") = {k}
            /\ calls'[k].res = "ok" =>
                 /\ store' \subseteq store
                 /\ \A e \in store : (e \in store') = (e.id # calls'[k].id)
                 /\ pc' = "rerun"
       /\ pc = "rerun" =>
            /\ pc' = "idle"
            /\ calls'[1].op = "query"
            /\ CallsOf(calls', "insert") \cup CallsOf(calls', "delete") = {}
            /\ store' = store
            /\ calls'[1].res = "ok" =>
                 {df'[i] : i \in 1 .. Len(df')}
                     = {e \in store : e.entry_date.v >= 0 - LoadDays}]_vars

\* One of two listed entries was just deleted and the rerun is pending.
C10_Witness ==
    /\ pc = "rerun"
    /\ Len(df) = 2
    /\ \E k \in CallsOf(calls, "delete") : calls[k].res = "ok" /\ calls[k].id = df[2].id
    /\ Cardinality(store) = 1

====
